---- MODULE Spec2Model ----
(***************************************************************************)
(* A model of agent.py, the host metrics agent: the two delta trackers     *)
(* (DeltaTracker, CoreTracker), the get_cpu collector that drives them,    *)
(* and the per-request collection pass (collect_metrics, do_GET).          *)
(*                                                                         *)
(* Representation.                                                         *)
(*   - time.monotonic() is the variable mono, advanced by Tick.            *)
(*   - a dictionary entry is a record with a field "set" (key present).    *)
(*   - a rate (a Python float quotient) is the exact fraction              *)
(*     [num, den] with den > 0; 0.0 is [num |-> 0, den |-> 1].             *)
(*   - a percentage rounded to one decimal is an integer number of tenths. *)
(*   - a thread inside update() has a frame fr[t]; its field pc is the     *)
(*     source line it is about to execute.                                 *)
(***************************************************************************)
EXTENDS Integers, Sequences, FiniteSets, TLC

VARIABLES
    mono,       \* time.monotonic()
    data,       \* tracker._data       (DeltaTracker, line 26)
    lock,       \* tracker._lock       (DeltaTracker, line 27): holder or 0
    cores,      \* core_tracker._cores (CoreTracker, line 50)
    coreLock,   \* core_tracker._lock  (CoreTracker, line 51): holder or 0
    writer,     \* history: per key, the tag of the call that stored its pair
    fr,         \* per thread: the frame of the update() call it is in
    kern,       \* the kernel's counters, as /proc/stat shows them
    passes,     \* get_cpu passes started so far
    cf,         \* per thread: the frame of the get_cpu() call it is in
    env,        \* the host: the state of the sources the collectors read
    static,     \* the lru_cache of get_static_info (line 69)
    h,          \* the request handler: do_GET and collect_metrics
    task,       \* per collector: the state of its future in this pass
    res,        \* per collector: what its future holds
    resp,       \* the response to the request last handled
    served,     \* requests handled so far
    dk,         \* the frame of a get_containers() call (lines 558-639)
    ex,         \* a response body and what lines 597-611 extract from it
    rq          \* per request thread of ThreadedHTTPServer: its handler

trackerVars == <<mono, data, lock, cores, coreLock, writer, fr>>
cpuVars == <<kern, passes, cf>>
passVars == <<env, static, h, task, res, resp, served, dk, ex, rq>>
vars == <<trackerVars, cpuVars, passVars>>

----------------------------------------------------------------------------
(* Bounds of the model *)

\* threads that call into the trackers concurrently
NThreads == 2
\* largest raw counter value handed to DeltaTracker.update
MaxVal == 1
\* largest reading of the monotonic clock
MaxClock == 1
\* largest core id handed to CoreTracker.update
MaxCore == 0

\* largest value of a kernel tick counter
MaxTicks == 1
\* get_cpu passes over the life of the process
MaxPasses == 2

\* /metrics, /health and other requests handled one after another
MaxRequests == 1
\* line 757: ThreadPoolExecutor(max_workers=8)
MaxWorkers == 8

Threads == 1..NThreads
\* the keys get_cpu uses (lines 131, 132, 164)
CpuKeys == {"cpu_idle", "cpu_total", "ctxt"}
\* the keys get_disk_io (lines 365-367) and get_network (lines 411-412) use
\* on a host with one disk, sda, and one interface, eth0
DiskKeys == {"disk_sda_read", "disk_sda_write", "disk_sda_io"}
NetKeys == {"net_eth0_rx", "net_eth0_tx"}
AllKeys == CpuKeys \cup DiskKeys \cup NetKeys
\* the keys the free-standing callers use
Keys == {"cpu_idle", "cpu_total"}
Vals == 0..MaxVal
CoreIds == 0..MaxCore
\* (idle, total) tick samples of one core; (100,200),(150,300) is the
\* documented example, the others give total_delta <= 0, a usage above 100
\* and a usage below 0
CoreSamples == {<<100, 200>>, <<150, 300>>, <<90, 203>>, <<150, 203>>}

----------------------------------------------------------------------------
(* Values *)

NoPair == [set |-> FALSE, val |-> 0, time |-> 0]
Pair(v, t) == [set |-> TRUE, val |-> v, time |-> t]

NoCore == [set |-> FALSE, idle |-> 0, total |-> 0]
CorePair(i, tot) == [set |-> TRUE, idle |-> i, total |-> tot]

Zero == [num |-> 0, den |-> 1]

\* line 39: val_delta / time_delta, reached only with time_delta > 0
RateOfClamped(val_delta, time_delta) ==
    [num |-> IF val_delta < 0 THEN 0 ELSE val_delta, den |-> time_delta]
RateOf(val_delta, time_delta) == [num |-> val_delta, den |-> time_delta]

\* Python's round(x, 1) of the fraction n/d (d > 0), in tenths: round(10*n/d)
\* to the nearest integer, a tie to the even one
RoundTenths(n, d) ==
    LET q == (10 * n) \div d
        r == (10 * n) % d
    IN  IF 2 * r < d THEN q
        ELSE IF 2 * r > d THEN q + 1
        ELSE IF q % 2 = 0 THEN q ELSE q + 1

\* line 62: round((1.0 - idle_delta / total_delta) * 100, 1), in tenths
CoreUsageClamped(idle_delta, total_delta) ==
    LET u == RoundTenths(100 * (total_delta - idle_delta), total_delta)
    IN  IF u < 0 THEN 0 ELSE IF u > 1000 THEN 1000 ELSE u
CoreUsage(idle_delta, total_delta) ==
    RoundTenths(100 * (total_delta - idle_delta), total_delta)

\* lines 134-138: the aggregate percentage from the two rates, in tenths:
\* round((1.0 - idle_rate / total_rate) * 100, 1) when total_rate > 0, else
\* 0.0; then clamped to [0, 100]
Clamp(x, lo, hi) == IF x < lo THEN lo ELSE IF x > hi THEN hi ELSE x
PercentOf(idle_rate, total_rate) ==
    LET d == idle_rate.den * total_rate.num
        n == d - idle_rate.num * total_rate.den
    IN  IF total_rate.num > 0
        THEN Clamp(RoundTenths(100 * n, d), 0, 1000)
        ELSE 0

\* lines 371, 372, 418, 419: round(max(0, rate), 1), in tenths
NonNegRaw(rate) == RoundTenths(rate.num, rate.den)
NonNeg(rate) ==
    RoundTenths(IF rate.num < 0 THEN 0 ELSE rate.num, rate.den)

\* line 373: round(min(100, max(0, io_rate / 10)), 1), in tenths
IoPercent(io_rate) ==
    LET n == io_rate.num
        d == 10 * io_rate.den
    IN  IF n < 0 THEN 0
        ELSE IF n > 100 * d THEN 1000
        ELSE RoundTenths(n, d)

\* the frame of a thread that is in no update() call
IdleFrame ==
    [pc |-> "idle", key |-> "", value |-> 0, now |-> 0,
     old_val |-> 0, old_time |-> 0, time_delta |-> 0, val_delta |-> 0,
     ret |-> Zero,
     core_id |-> 0, idle |-> 0, total |-> 0,
     idle_delta |-> 0, total_delta |-> 0, usage |-> 0,
     tag |-> 0, prev |-> NoPair, prevTag |-> 0, prevCore |-> NoCore]

----------------------------------------------------------------------------
(* DeltaTracker.update(key, value), lines 29-41 *)

\* line 29: the call binds key and value.  tag is a history field: the
\* get_cpu pass the call belongs to (0 for a free-standing caller)
Enter(t, k, v) ==
    /\ fr[t].pc = "idle"
    /\ fr' = [fr EXCEPT ![t] = [IdleFrame EXCEPT !.pc = "l31", !.key = k,
                                    !.value = v, !.tag = cf[t].pass]]
    /\ UNCHANGED <<mono, data, lock, cores, coreLock, writer>>

\* line 31 with the lock left out: the body is entered at once
AcquireNoLock(t) ==
    /\ fr[t].pc = "l31"
    /\ fr' = [fr EXCEPT ![t].pc = "l32", ![t].prev = data[fr[t].key],
                        ![t].prevTag = writer[fr[t].key]]
    /\ UNCHANGED <<mono, data, lock, cores, coreLock, writer, cpuVars, passVars>>
\* line 31: "with self._lock" blocks until the lock is free and takes it.
\* prev and prevTag are history fields: the pair stored for the key, and its
\* writer, as the lock is taken
Acquire(t) ==
    /\ fr[t].pc = "l31"
    /\ lock = 0
    /\ lock' = t
    /\ fr' = [fr EXCEPT ![t].pc = "l32", ![t].prev = data[fr[t].key],
                        ![t].prevTag = writer[fr[t].key]]
    /\ UNCHANGED <<mono, data, cores, coreLock, writer, cpuVars, passVars>>

\* line 32 with a clock that may step back (time.time())
ReadClockWall(t) ==
    /\ fr[t].pc = "l32"
    /\ \E c \in 0..MaxClock : fr' = [fr EXCEPT ![t].now = c, ![t].pc = "l33"]
    /\ UNCHANGED <<mono, data, lock, cores, coreLock, writer, cpuVars, passVars>>
\* line 32: now = time.monotonic()
ReadClock(t) ==
    /\ fr[t].pc = "l32"
    /\ fr' = [fr EXCEPT ![t].now = mono, ![t].pc = "l33"]
    /\ UNCHANGED <<mono, data, lock, cores, coreLock, writer, cpuVars, passVars>>

\* lines 33-36: the membership test and the two deltas
Lookup(t) ==
    /\ fr[t].pc = "l33"
    /\ LET k == fr[t].key IN
       IF data[k].set
       THEN fr' = [fr EXCEPT ![t].old_val = data[k].val,
                             ![t].old_time = data[k].time,
                             ![t].time_delta = fr[t].now - data[k].time,
                             ![t].val_delta = fr[t].value - data[k].val,
                             ![t].pc = "l37"]
       ELSE fr' = [fr EXCEPT ![t].pc = "l40"]
    /\ UNCHANGED <<mono, data, lock, cores, coreLock, writer, cpuVars, passVars>>

\* lines 37-39 without the store of line 37
Store37NoWrite(t) ==
    /\ fr[t].pc = "l37"
    /\ IF fr[t].time_delta > 0
       THEN fr' = [fr EXCEPT ![t].ret = RateOf(fr[t].val_delta, fr[t].time_delta),
                             ![t].pc = "exit"]
       ELSE fr' = [fr EXCEPT ![t].ret = Zero, ![t].pc = "exit"]
    /\ UNCHANGED <<mono, data, lock, cores, coreLock, writer, cpuVars, passVars>>
\* lines 37-39: store the new pair; return the rate when time_delta > 0,
\* else fall through to line 40
Store37(t) ==
    /\ fr[t].pc = "l37"
    /\ data' = [data EXCEPT ![fr[t].key] = Pair(fr[t].value, fr[t].now)]
    /\ IF fr[t].time_delta > 0
       THEN fr' = [fr EXCEPT ![t].ret = RateOf(fr[t].val_delta, fr[t].time_delta),
                             ![t].pc = "exit"]
       ELSE fr' = [fr EXCEPT ![t].pc = "l40"]
    /\ writer' = [writer EXCEPT ![fr[t].key] = fr[t].tag]
    /\ UNCHANGED <<mono, lock, cores, coreLock, cpuVars, passVars>>

\* lines 40-41 with the whole dictionary replaced by the one new entry
Store40Replace(t) ==
    /\ fr[t].pc = "l40"
    /\ data' = [k \in AllKeys |-> IF k = fr[t].key
                               THEN Pair(fr[t].value, fr[t].now) ELSE NoPair]
    /\ fr' = [fr EXCEPT ![t].ret = Zero, ![t].pc = "exit"]
    /\ writer' = [writer EXCEPT ![fr[t].key] = fr[t].tag]
    /\ UNCHANGED <<mono, lock, cores, coreLock, cpuVars, passVars>>
\* lines 40-41 without the store of line 40
Store40NoWrite(t) ==
    /\ fr[t].pc = "l40"
    /\ fr' = [fr EXCEPT ![t].ret = Zero, ![t].pc = "exit"]
    /\ UNCHANGED <<mono, data, lock, cores, coreLock, writer, cpuVars, passVars>>
\* lines 40-41: store the new pair and return 0.0
Store40(t) ==
    /\ fr[t].pc = "l40"
    /\ data' = [data EXCEPT ![fr[t].key] = Pair(fr[t].value, fr[t].now)]
    /\ fr' = [fr EXCEPT ![t].ret = Zero, ![t].pc = "exit"]
    /\ writer' = [writer EXCEPT ![fr[t].key] = fr[t].tag]
    /\ UNCHANGED <<mono, lock, cores, coreLock, cpuVars, passVars>>

\* leaving "with self._lock" by return: the lock is released and the frame
\* is gone; the caller has fr[t].ret
Release(t) ==
    /\ fr[t].pc = "exit"
    /\ lock' = IF lock = t THEN 0 ELSE lock
    /\ fr' = [fr EXCEPT ![t] = IdleFrame]
    /\ UNCHANGED <<mono, data, cores, coreLock, writer>>

----------------------------------------------------------------------------
(* CoreTracker.update(core_id, idle, total), lines 53-64 *)

\* line 53: the call binds core_id, idle and total
CoreEnter(t, c, i, tot) ==
    /\ fr[t].pc = "idle"
    /\ fr' = [fr EXCEPT ![t] = [IdleFrame EXCEPT !.pc = "c55", !.core_id = c,
                                    !.idle = i, !.total = tot]]
    /\ UNCHANGED <<mono, data, lock, cores, coreLock, writer>>

\* line 55: "with self._lock" blocks until the lock is free and takes it.
\* prevCore is a history field: the pair stored for the core as the lock is
\* taken
CoreAcquire(t) ==
    /\ fr[t].pc = "c55"
    /\ coreLock = 0
    /\ coreLock' = t
    /\ fr' = [fr EXCEPT ![t].pc = "c56", ![t].prevCore = cores[fr[t].core_id]]
    /\ UNCHANGED <<mono, data, lock, cores, writer, cpuVars, passVars>>

\* lines 56-59: the membership test and the two deltas
CoreLookup(t) ==
    /\ fr[t].pc = "c56"
    /\ LET c == fr[t].core_id IN
       IF cores[c].set
       THEN fr' = [fr EXCEPT ![t].idle_delta = fr[t].idle - cores[c].idle,
                             ![t].total_delta = fr[t].total - cores[c].total,
                             ![t].pc = "c60"]
       ELSE fr' = [fr EXCEPT ![t].pc = "c63"]
    /\ UNCHANGED <<mono, data, lock, cores, coreLock, writer, cpuVars, passVars>>

\* lines 60-62: store the new pair; return the usage when total_delta > 0,
\* else fall through to line 63
CoreStore60(t) ==
    /\ fr[t].pc = "c60"
    /\ cores' = [cores EXCEPT ![fr[t].core_id] = CorePair(fr[t].idle, fr[t].total)]
    /\ IF fr[t].total_delta > 0
       THEN fr' = [fr EXCEPT ![t].usage = CoreUsage(fr[t].idle_delta, fr[t].total_delta),
                             ![t].pc = "cexit"]
       ELSE fr' = [fr EXCEPT ![t].pc = "c63"]
    /\ UNCHANGED <<mono, data, lock, coreLock, writer, cpuVars, passVars>>

\* lines 63-64: store the new pair and return 0.0
CoreStore63(t) ==
    /\ fr[t].pc = "c63"
    /\ cores' = [cores EXCEPT ![fr[t].core_id] = CorePair(fr[t].idle, fr[t].total)]
    /\ fr' = [fr EXCEPT ![t].usage = 0, ![t].pc = "cexit"]
    /\ UNCHANGED <<mono, data, lock, coreLock, writer, cpuVars, passVars>>

\* leaving "with self._lock" by return: the lock is released and the frame
\* is gone; the caller has fr[t].usage
CoreRelease(t) ==
    /\ fr[t].pc = "cexit"
    /\ coreLock' = IF coreLock = t THEN 0 ELSE coreLock
    /\ fr' = [fr EXCEPT ![t] = IdleFrame]
    /\ UNCHANGED <<mono, data, lock, cores, writer>>

----------------------------------------------------------------------------
(* get_cpu(), lines 120-174, as the collector task of one /metrics request. *)
(* ThreadedHTTPServer (lines 859-872) serves every request on a thread of   *)
(* its own and collect_metrics (line 757) gives every request an executor   *)
(* of its own, so the get_cpu tasks of requests in flight run concurrently: *)
(* thread t runs the get_cpu task of one request after another.  The model  *)
(* machine has one core, whose cpu0 line carries the aggregate line's       *)
(* counters.                                                                *)

\* the kernel's counters advance
KernelAdvance ==
    /\ \E di \in 0..1, db \in 0..1, dc \in 0..1 :
        /\ di + db + dc > 0
        /\ kern.idle + di <= MaxTicks
        /\ kern.busy + db <= MaxTicks
        /\ kern.ctxt + dc <= MaxTicks
        /\ kern' = [kern EXCEPT !.idle = kern.idle + di,
                                !.busy = kern.busy + db,
                                !.ctxt = kern.ctxt + dc]
    /\ UNCHANGED <<trackerVars, passes, cf, passVars>>

StartFrame ==
    [stage |-> "start", pass |-> 0, idle |-> 0, total |-> 0, ctxt |-> 0,
     idle_rate |-> Zero, total_rate |-> Zero, percent |-> 0, core |-> 0,
     ctxt_rate |-> Zero, ok |-> TRUE, prevIdleTag |-> 0, prevTotalTag |-> 0,
     baseIdle |-> 0, baseTotal |-> 0,
     dev |-> 0, read_sec |-> 0, write_sec |-> 0, io_percent |-> 0,
     rx_sec |-> 0, tx_sec |-> 0]

\* lines 123-129: /proc/stat is read and its aggregate line parsed;
\* idle = idle + iowait, total = the sum of the fields
CpuRead(t) ==
    /\ cf[t].stage = "start"
    /\ passes < MaxPasses
    /\ passes' = passes + 1
    /\ cf' = [cf EXCEPT ![t] = [StartFrame EXCEPT !.stage = "l131",
                                    !.pass = passes + 1,
                                    !.idle = kern.idle,
                                    !.total = kern.idle + kern.busy,
                                    !.ctxt = kern.ctxt]]
    /\ UNCHANGED <<trackerVars, kern, passVars>>

\* lines 123-129 and 173-174: /proc/stat is unreadable or malformed; parsing
\* raises and the fallback is returned, no tracker having been called
CpuReadFail(t) ==
    /\ cf[t].stage = "start"
    /\ passes < MaxPasses
    /\ passes' = passes + 1
    /\ cf' = [cf EXCEPT ![t] = [StartFrame EXCEPT !.stage = "done",
                                    !.pass = passes + 1, !.ok = FALSE]]
    /\ UNCHANGED <<trackerVars, kern, passVars>>

\* line 131: idle_rate = tracker.update('cpu_idle', idle), the call
CpuCallIdle(t) ==
    /\ cf[t].stage = "l131"
    /\ Enter(t, "cpu_idle", cf[t].idle)
    /\ UNCHANGED <<cpuVars, passVars>>
\* line 131, the return.  prevIdleTag and baseIdle are history fields: the
\* pass whose sample the rate was measured against, and that sample's value
CpuRetIdle(t) ==
    /\ cf[t].stage = "l131"
    /\ Release(t)
    /\ cf' = [cf EXCEPT ![t].idle_rate = fr[t].ret,
                        ![t].prevIdleTag = fr[t].prevTag,
                        ![t].baseIdle = fr[t].prev.val,
                        ![t].stage = "l132"]
    /\ UNCHANGED <<kern, passes, passVars>>

\* line 132: total_rate = tracker.update('cpu_total', total), the call
CpuCallTotal(t) ==
    /\ cf[t].stage = "l132"
    /\ Enter(t, "cpu_total", cf[t].total)
    /\ UNCHANGED <<cpuVars, passVars>>
\* line 132, the return, and lines 134-138: the percentage
CpuRetTotal(t) ==
    /\ cf[t].stage = "l132"
    /\ Release(t)
    /\ cf' = [cf EXCEPT ![t].total_rate = fr[t].ret,
                        ![t].prevTotalTag = fr[t].prevTag,
                        ![t].baseTotal = fr[t].prev.val,
                        ![t].percent = PercentOf(cf[t].idle_rate, fr[t].ret),
                        ![t].stage = "l149"]
    /\ UNCHANGED <<kern, passes, passVars>>

\* lines 142-149: the cpu0 line; usage = core_tracker.update(0, c_idle,
\* c_total), the call
CpuCallCore(t) ==
    /\ cf[t].stage = "l149"
    /\ CoreEnter(t, 0, cf[t].idle, cf[t].total)
    /\ UNCHANGED <<cpuVars, passVars>>
\* line 149, the return, and line 150: the usage clamped to [0, 100]
CpuRetCore(t) ==
    /\ cf[t].stage = "l149"
    /\ CoreRelease(t)
    /\ cf' = [cf EXCEPT ![t].core = Clamp(fr[t].usage, 0, 1000),
                        ![t].stage = "l164"]
    /\ UNCHANGED <<kern, passes, passVars>>

\* lines 153-164: ctxt_rate = tracker.update('ctxt', ctxt), the call
CpuCallCtxt(t) ==
    /\ cf[t].stage = "l164"
    /\ Enter(t, "ctxt", cf[t].ctxt)
    /\ UNCHANGED <<cpuVars, passVars>>
\* line 164, the return, and lines 166-172: the result is returned
CpuRetCtxt(t) ==
    /\ cf[t].stage = "l164"
    /\ Release(t)
    /\ cf' = [cf EXCEPT ![t].ctxt_rate = fr[t].ret, ![t].stage = "done"]
    /\ UNCHANGED <<kern, passes, passVars>>

\* the request is answered; the thread's next get_cpu task is that of
\* another request
CpuNext(t) ==
    /\ cf[t].stage = "done"
    /\ cf' = [cf EXCEPT ![t] = StartFrame]
    /\ UNCHANGED <<trackerVars, kern, passes, passVars>>

----------------------------------------------------------------------------
(* get_disk_io(), lines 341-380, and get_network(), lines 382-428, as       *)
(* collector tasks of /metrics requests in flight, on a host whose          *)
(* /proc/diskstats has the one disk sda and whose /proc/net/dev has the one *)
(* interface eth0.  The counters of the device (sectors read and written,   *)
(* milliseconds of I/O, bytes received and sent) carry the same number,     *)
(* kern.dev.                                                                *)

\* what /proc/stat, /proc/diskstats and /proc/net/dev show at some moment:
\* the (idle, total) pairs are among those of CoreSamples; dev rises by 500
\* (half of the time in I/O), by 19500 (more than all of it) and falls
KernSamples ==
    {[idle |-> 100, busy |-> 100, ctxt |-> 0, dev |-> 0],
     [idle |-> 150, busy |-> 53, ctxt |-> 7, dev |-> 500],
     [idle |-> 90, busy |-> 113, ctxt |-> 3, dev |-> 20000]}

\* the counters change: they advance, or they decrease or are reset (a
\* device that is re-attached, a counter that wraps, iowait going down)
CountersChange ==
    /\ \E k \in KernSamples : k # kern /\ kern' = k
    /\ UNCHANGED <<trackerVars, passes, cf, passVars>>

\* lines 345-363: /proc/diskstats is read and the line of sda parsed;
\* read_bytes = read_sectors * 512, write_bytes = write_sectors * 512
DiskRead(t) ==
    /\ cf[t].stage = "start"
    /\ passes < MaxPasses
    /\ passes' = passes + 1
    /\ cf' = [cf EXCEPT ![t] = [StartFrame EXCEPT !.stage = "l365",
                                    !.pass = passes + 1,
                                    !.dev = kern.dev]]
    /\ UNCHANGED <<trackerVars, kern, passVars>>

\* line 365: read_rate = tracker.update('disk_sda_read', read_bytes), the call
DiskCallRead(t) ==
    /\ cf[t].stage = "l365"
    /\ Enter(t, "disk_sda_read", cf[t].dev * 512)
    /\ UNCHANGED <<cpuVars, passVars>>
\* line 365, the return, and line 371: read_bytes_sec
DiskRetRead(t) ==
    /\ cf[t].stage = "l365"
    /\ Release(t)
    /\ cf' = [cf EXCEPT ![t].read_sec = NonNeg(fr[t].ret),
                        ![t].stage = "l366"]
    /\ UNCHANGED <<kern, passes, passVars>>

\* line 366: write_rate = tracker.update('disk_sda_write', write_bytes)
DiskCallWrite(t) ==
    /\ cf[t].stage = "l366"
    /\ Enter(t, "disk_sda_write", cf[t].dev * 512)
    /\ UNCHANGED <<cpuVars, passVars>>
\* line 366, the return, and line 372: write_bytes_sec
DiskRetWrite(t) ==
    /\ cf[t].stage = "l366"
    /\ Release(t)
    /\ cf' = [cf EXCEPT ![t].write_sec = NonNeg(fr[t].ret),
                        ![t].stage = "l367"]
    /\ UNCHANGED <<kern, passes, passVars>>

\* line 367: io_rate = tracker.update('disk_sda_io', io_time), the call
DiskCallIo(t) ==
    /\ cf[t].stage = "l367"
    /\ Enter(t, "disk_sda_io", cf[t].dev)
    /\ UNCHANGED <<cpuVars, passVars>>
\* line 367, the return, and lines 369-380: io_percent; the entry is
\* appended and the list returned
DiskRetIo(t) ==
    /\ cf[t].stage = "l367"
    /\ Release(t)
    /\ cf' = [cf EXCEPT ![t].io_percent = IoPercent(fr[t].ret),
                        ![t].stage = "done"]
    /\ UNCHANGED <<kern, passes, passVars>>

\* lines 385-409: /proc/net/dev is read and the line of eth0 parsed
NetRead(t) ==
    /\ cf[t].stage = "start"
    /\ passes < MaxPasses
    /\ passes' = passes + 1
    /\ cf' = [cf EXCEPT ![t] = [StartFrame EXCEPT !.stage = "l411",
                                    !.pass = passes + 1,
                                    !.dev = kern.dev]]
    /\ UNCHANGED <<trackerVars, kern, passVars>>

\* line 411: rx_rate = tracker.update('net_eth0_rx', rx_bytes), the call
NetCallRx(t) ==
    /\ cf[t].stage = "l411"
    /\ Enter(t, "net_eth0_rx", cf[t].dev)
    /\ UNCHANGED <<cpuVars, passVars>>
\* line 411, the return, and line 418: rx_bytes_sec
NetRetRx(t) ==
    /\ cf[t].stage = "l411"
    /\ Release(t)
    /\ cf' = [cf EXCEPT ![t].rx_sec = NonNeg(fr[t].ret),
                        ![t].stage = "l412"]
    /\ UNCHANGED <<kern, passes, passVars>>

\* line 412: tx_rate = tracker.update('net_eth0_tx', tx_bytes), the call
NetCallTx(t) ==
    /\ cf[t].stage = "l412"
    /\ Enter(t, "net_eth0_tx", cf[t].dev)
    /\ UNCHANGED <<cpuVars, passVars>>
\* line 412, the return, and lines 414-428: tx_bytes_sec; the entry is
\* appended and the list returned
NetRetTx(t) ==
    /\ cf[t].stage = "l412"
    /\ Release(t)
    /\ cf' = [cf EXCEPT ![t].tx_sec = NonNeg(fr[t].ret),
                        ![t].stage = "done"]
    /\ UNCHANGED <<kern, passes, passVars>>

----------------------------------------------------------------------------
(* One request handler: do_GET (lines 819-847) and collect_metrics (lines   *)
(* 752-814), with the executor of the pass and its fifteen futures.  A      *)
(* collector is taken as a unit here: it starts when a worker takes it off  *)
(* the queue and it ends by returning or raising.                           *)

\* lines 758-774: the futures, in the order they are submitted and joined
Collectors ==
    <<"uptime", "cpu", "cpu_freq", "temps", "memory", "filesystems",
      "disk_io", "network", "tcp", "load", "fds", "entropy", "processes",
      "containers", "logs">>
NCollectors == Len(Collectors)
Tasks == 1..NCollectors
IndexOf(name) == CHOOSE i \in Tasks : Collectors[i] = name

\* lines 805-812: the results that make an optional field of the snapshot
Optional == {"cpu_freq", "temps", "fds", "entropy"}
\* lines 783-801: the keys the snapshot always has (results['memory'] gives
\* both 'memory' and 'swap'; 'hostname' and 'system' come from the static
\* info)
Required ==
    {"agent_version", "timestamp", "hostname", "system", "uptime", "cpu",
     "memory", "swap", "load", "filesystems", "disk_io", "network", "tcp",
     "processes", "containers", "logs"}
\* lines 806-812: the key an optional result is stored under
FieldOf(name) ==
    IF name = "temps" THEN "temperatures"
    ELSE IF name = "fds" THEN "file_descriptors"
    ELSE name

Paths == {"/metrics", "/health", "/other"}

\* The host.  osrel is /etc/os-release: "ok" (it has a PRETTY_NAME= line),
\* "missing" (open() fails) or "nopretty" (readable, no PRETTY_NAME= line:
\* empty, or other content).  At most one collector is in trouble, who
\* (0: none): "fail" (its source is missing, unreadable, empty or malformed),
\* "raise" (os.sysconf fails, lines 500-501), "hang" (a read that never
\* returns: os.statvfs on a dead network mount, line 320) or "zero" (the
\* entropy pool is empty: entropy_avail reads 0, line 493).
FailingSources == {"memory", "entropy"}
Envs ==
    {[osrel |-> o, who |-> 0, kind |-> "none"] :
        o \in {"ok", "missing", "nopretty"}}
    \cup {[osrel |-> "ok", who |-> IndexOf(n), kind |-> "fail"] : n \in FailingSources}
    \cup {[osrel |-> "ok", who |-> IndexOf("processes"), kind |-> "raise"],
          [osrel |-> "ok", who |-> IndexOf("filesystems"), kind |-> "hang"],
          [osrel |-> "ok", who |-> IndexOf("entropy"), kind |-> "zero"]}

\* What a collector returns when its source fails: None from the four
\* optional ones (lines 197, 246, 487, 495), its zero or empty value from
\* the others (lines 118, 174, 287-290, 339, 380, 428, 456, 472, 508, 639,
\* 750)
FailResult(c) == IF Collectors[c] \in Optional THEN "absent" ELSE "default"

\* How collector c ends on this host
Outcome(c) ==
    IF env.who = c /\ env.kind = "fail" THEN FailResult(c)
    ELSE IF env.who = c /\ env.kind = "raise" THEN "raised"
    ELSE IF env.who = c /\ env.kind = "zero" THEN "zero"
    ELSE "ok"

\* the truth value of a result in an "if": None and 0 are false, a non-empty
\* dict or list and a non-zero number are true
Truthy(v) == v \notin {"absent", "zero"}
\* lines 805-812: the test that admits an optional result: truth for
\* cpu_freq, temps and fds, "is not None" for entropy
Admitted(name, v) ==
    IF name = "entropy" THEN v # "absent" ELSE Truthy(v)

IdleHandler == [stage |-> "idle", path |-> "", m |-> 0, j |-> 1, exc |-> FALSE]
NoResp == [status |-> 0, fields |-> {}, defaults |-> {}]

Running == {c \in Tasks : task[c] = "running"}
Finished == {c \in Tasks : task[c] = "done"}

\* a request arrives and do_GET routes it (lines 820-824, 838, 846); the
\* futures of the pass before are gone
Accept ==
    /\ h.stage = "idle"
    /\ served < MaxRequests
    /\ \E p \in Paths :
        h' = [IdleHandler EXCEPT !.path = p,
                                 !.stage = IF p = "/metrics" THEN "l754"
                                           ELSE "respond"]
    /\ task' = [c \in Tasks |-> "none"]
    /\ res' = [c \in Tasks |-> "none"]
    /\ resp' = NoResp
    /\ UNCHANGED <<trackerVars, cpuVars, dk, ex, rq, env, static, served>>

\* line 754 and lines 69-100: get_static_info().  A cached value is returned
\* as it is; else the info is built and cached.  'os' is set by line 95 when
\* a PRETTY_NAME= line is found and by line 98 when the file cannot be
\* opened, and not at all otherwise.  runs is a history field: how many times
\* the body of get_static_info has been executed
StaticInfo ==
    /\ h.stage = "l754"
    /\ static' = IF static.cached THEN static
                 ELSE [cached |-> TRUE, hasOs |-> env.osrel \in {"ok", "missing"},
                       runs |-> static.runs + 1]
    /\ h' = [h EXCEPT !.stage = "submit"]
    /\ UNCHANGED <<trackerVars, cpuVars, dk, ex, rq, env, task, res, resp, served>>

\* lines 757-774: executor.submit of the next collector; it is queued
Submit ==
    /\ h.stage = "submit"
    /\ h.m < NCollectors
    /\ task' = [task EXCEPT ![h.m + 1] = "queued"]
    /\ h' = [h EXCEPT !.m = h.m + 1,
                      !.stage = IF h.m + 1 = NCollectors THEN "join" ELSE "submit"]
    /\ UNCHANGED <<trackerVars, cpuVars, dk, ex, rq, env, static, res, resp, served>>

\* a worker of the pool takes the oldest queued item; the pool has at most
\* max_workers threads
Start(c) ==
    /\ task[c] = "queued"
    /\ \A d \in Tasks : d < c => task[d] # "queued"
    /\ Cardinality(Running) < MaxWorkers
    /\ task' = [task EXCEPT ![c] = "running"]
    /\ UNCHANGED <<trackerVars, cpuVars, dk, ex, rq, env, static, h, res, resp, served>>

\* the collector returns or raises; the future holds its result or its
\* exception.  A collector that hangs does neither
Finish(c) ==
    /\ task[c] = "running"
    /\ ~(env.who = c /\ env.kind = "hang")
    /\ task' = [task EXCEPT ![c] = "done"]
    /\ res' = [res EXCEPT ![c] = Outcome(c)]
    /\ UNCHANGED <<trackerVars, cpuVars, dk, ex, rq, env, static, h, resp, served>>

\* line 776: v.result() of the next future: it blocks until the future is
\* done, then gives its result or raises its exception
Join ==
    /\ h.stage = "join"
    /\ task[h.j] = "done"
    /\ IF res[h.j] = "raised"
       THEN h' = [h EXCEPT !.exc = TRUE, !.stage = "exitwith"]
       ELSE h' = [h EXCEPT !.j = h.j + 1,
                           !.stage = IF h.j = NCollectors THEN "exitwith" ELSE "join"]
    /\ UNCHANGED <<trackerVars, cpuVars, dk, ex, rq, env, static, task, res, resp, served>>

\* leaving the "with" block with shutdown(wait=False): nothing is waited for
ExitWithNoWait ==
    /\ h.stage = "exitwith"
    /\ h' = [h EXCEPT !.stage = IF h.exc THEN "fail" ELSE "assemble"]
    /\ UNCHANGED <<trackerVars, cpuVars, dk, ex, rq, env, static, task, res, resp, served>>
\* leaving the "with" block of line 757, normally or by an exception: the
\* executor's __exit__ is shutdown(wait=True), which returns when every
\* submitted item has run
ExitWith ==
    /\ h.stage = "exitwith"
    /\ Finished = Tasks
    /\ h' = [h EXCEPT !.stage = IF h.exc THEN "fail" ELSE "assemble"]
    /\ UNCHANGED <<trackerVars, cpuVars, dk, ex, rq, env, static, task, res, resp, served>>

\* lines 778-814 with entropy admitted by its truth value, as the other
\* optional results are
AssembleTruthy ==
    /\ h.stage = "assemble"
    /\ IF ~static.hasOs
       THEN /\ h' = [h EXCEPT !.exc = TRUE, !.stage = "fail"]
            /\ resp' = resp
       ELSE /\ h' = [h EXCEPT !.stage = "respond"]
            /\ resp' = [status |-> 0,
                        fields |-> Required \cup
                            {FieldOf(Collectors[c]) :
                                c \in {d \in Tasks : Collectors[d] \in Optional
                                                     /\ Truthy(res[d])}},
                        defaults |-> {Collectors[c] :
                                c \in {d \in Tasks : res[d] = "default"}}]
    /\ UNCHANGED <<trackerVars, cpuVars, dk, ex, rq, env, static, task, res, served>>
\* lines 778-814: the snapshot.  static['os'] (line 785) raises KeyError
\* when the cached info has no 'os'.  An optional result is added when it
\* passes its test (lines 805-812)
Assemble ==
    /\ h.stage = "assemble"
    /\ IF ~static.hasOs
       THEN /\ h' = [h EXCEPT !.exc = TRUE, !.stage = "fail"]
            /\ resp' = resp
       ELSE /\ h' = [h EXCEPT !.stage = "respond"]
            /\ resp' = [status |-> 0,
                        fields |-> Required \cup
                            {FieldOf(Collectors[c]) :
                                c \in {d \in Tasks : Collectors[d] \in Optional
                                          /\ Admitted(Collectors[d], res[d])}},
                        defaults |-> {Collectors[c] :
                                c \in {d \in Tasks : res[d] = "default"}}]
    /\ UNCHANGED <<trackerVars, cpuVars, dk, ex, rq, env, static, task, res, served>>

\* lines 826-836, 839-844 and 847: the response is sent
Respond ==
    /\ h.stage = "respond"
    /\ resp' = [resp EXCEPT !.status = IF h.path = "/other" THEN 404 ELSE 200]
    /\ h' = [h EXCEPT !.stage = "done"]
    /\ served' = served + 1
    /\ UNCHANGED <<trackerVars, cpuVars, dk, ex, rq, env, static, task, res>>

\* lines 866-872: an exception out of do_GET ends in handle_error and
\* shutdown_request; the connection is closed, no response was sent
Fail ==
    /\ h.stage = "fail"
    /\ resp' = [NoResp EXCEPT !.status = -1]
    /\ h' = [h EXCEPT !.stage = "done"]
    /\ served' = served + 1
    /\ UNCHANGED <<trackerVars, cpuVars, dk, ex, rq, env, static, task, res>>

\* the handler is free for the next request
Finish_Request ==
    /\ h.stage = "done"
    /\ h' = IdleHandler
    /\ UNCHANGED <<trackerVars, cpuVars, dk, ex, rq, env, static, task, res, resp, served>>

----------------------------------------------------------------------------
(* get_containers(), lines 558-639: the Docker socket client.  The peer     *)
(* (the socket, the daemon behind it) chooses the outcome of every socket   *)
(* call and the content of what is received; the response is kept by its    *)
(* length, by whether it holds the terminating chunk marker, and by what    *)
(* the parsing steps find in it.                                            *)

\* line 574: range(100)
MaxChunks == 100
\* line 576: recv(1024)
RecvSize == 1024
\* line 581: len(response) > 50000
MaxResponse == 50000
\* the length of b'\r\n0\r\n\r\n' (line 581) and of b'\r\n\r\n' (line 589)
MarkerLen == 7
BoundaryLen == 4
\* elements of the decoded array
MaxElems == 2

\* the sizes of a non-empty read: recv(1024) gives 1 to 1024 bytes
ChunkSizes == {1, RecvSize}
\* an array element: "good" (an object with Names), "noname" (an object
\* without, or with empty, Names: line 619 skips it) or "bad" (not an
\* object, or Names[0] not a string: line 617 or 620 raises)
ElemKinds == {"good", "noname", "bad"}
Arrays == UNION {[1..n -> ElemKinds] : n \in 0..MaxElems}

\* the frame of get_containers.  failedAt is a history field: the step that
\* raised, "" when none did
IdleDocker ==
    [stage |-> "idle", sent |-> FALSE, n |-> 0, len |-> 0, marker |-> FALSE,
     stop |-> "", matched |-> FALSE, data |-> <<>>, k |-> 0,
     containers |-> <<>>, failedAt |-> "", escaped |-> FALSE,
     returned |-> FALSE, sock |-> "none"]

\* a step of get_containers, which changes nothing but its frame
DockerStep(f) ==
    /\ dk' = f
    /\ UNCHANGED <<trackerVars, cpuVars, env, static, h, task, res, resp,
                   served, ex, rq>>

\* an exception is raised inside the try block of line 561
Raise(at) == [dk EXCEPT !.failedAt = at, !.stage = "l635"]

\* lines 558-561: the call; containers = []
DockerCall ==
    /\ dk.stage = "idle"
    /\ DockerStep([IdleDocker EXCEPT !.stage = "l563"])

\* lines 563-565: socket(), settimeout(2), connect(); connect raises when
\* the socket is absent, refuses or times out.  sock is the state of the
\* socket that line 563 opened: "open" until sock.close() is called on it
Connect ==
    /\ dk.stage = "l563"
    /\ \E ok \in BOOLEAN :
        DockerStep(IF ok THEN [dk EXCEPT !.sock = "open", !.stage = "l569"]
                   ELSE [Raise("connect") EXCEPT !.sock = "open"])

\* lines 568-573: sendall(request); response = b''; settimeout(1)
Send ==
    /\ dk.stage = "l569"
    /\ \E ok \in BOOLEAN :
        DockerStep(IF ok THEN [dk EXCEPT !.sent = TRUE, !.stage = "l576"]
                   ELSE Raise("send"))

\* lines 574-584 without the length test of line 581
RecvNoCap ==
    /\ dk.stage = "l576"
    /\ dk.n < MaxChunks
    /\ \/ \E sz \in ChunkSizes, m \in BOOLEAN :
            LET len2 == dk.len + sz
                mk == m /\ len2 >= MarkerLen
            IN  DockerStep([dk EXCEPT !.n = dk.n + 1, !.len = len2, !.marker = mk,
                        !.stop = IF mk THEN "marker"
                                 ELSE IF dk.n + 1 = MaxChunks THEN "count" ELSE "",
                        !.stage = IF mk \/ dk.n + 1 = MaxChunks
                                  THEN "l586" ELSE "l576"])
       \/ DockerStep([dk EXCEPT !.n = dk.n + 1, !.stop = "empty", !.stage = "l586"])
\* lines 574-584: one pass of the read loop.  recv gives a chunk (which may
\* complete the terminating marker in the response), gives b'' (the peer
\* closed), times out (socket.timeout, caught at line 583) or raises another
\* error (caught at line 635)
Recv ==
    /\ dk.stage = "l576"
    /\ dk.n < MaxChunks
    /\ \/ \E sz \in ChunkSizes, m \in BOOLEAN :
            LET len2 == dk.len + sz
                mk == m /\ len2 >= MarkerLen
                brk == mk \/ len2 > MaxResponse
            IN  DockerStep([dk EXCEPT !.n = dk.n + 1, !.len = len2, !.marker = mk,
                        !.stop = IF mk THEN "marker"
                                 ELSE IF len2 > MaxResponse THEN "length"
                                 ELSE IF dk.n + 1 = MaxChunks THEN "count" ELSE "",
                        !.stage = IF brk \/ dk.n + 1 = MaxChunks
                                  THEN "l586" ELSE "l576"])
       \/ DockerStep([dk EXCEPT !.n = dk.n + 1, !.stop = "empty", !.stage = "l586"])
       \/ DockerStep([dk EXCEPT !.n = dk.n + 1, !.stop = "timeout", !.stage = "l586"])
       \/ DockerStep([Raise("recv") EXCEPT !.n = dk.n + 1])

\* line 586: sock.close()
Close ==
    /\ dk.stage = "l586"
    /\ DockerStep([dk EXCEPT !.sock = "closed", !.stage = "l589"])

\* lines 589-590: the header/body boundary; without it nothing is parsed
Split ==
    /\ dk.stage = "l589"
    /\ \E has \in BOOLEAN :
        /\ has => dk.len >= BoundaryLen
        /\ DockerStep([dk EXCEPT !.stage = IF has THEN "l597" ELSE "l639"])

\* lines 597-598: body.find(b'['); without a '[' nothing is parsed
FindStart ==
    /\ dk.stage = "l597"
    /\ \E has \in BOOLEAN :
        /\ has => dk.len > BoundaryLen
        /\ DockerStep([dk EXCEPT !.stage = IF has THEN "l600" ELSE "l639"])

\* lines 600-609: the bracket scan; when no bracket brings the depth back to
\* 0, json_end stays json_start
Match ==
    /\ dk.stage = "l600"
    /\ \E found \in BOOLEAN :
        DockerStep([dk EXCEPT !.matched = found, !.stage = "l611"])

\* line 611: the slice is decoded; an empty slice decodes to ''
Decode ==
    /\ dk.stage = "l611"
    /\ \E ok \in BOOLEAN :
        /\ ~dk.matched => ok
        /\ DockerStep(IF ok THEN [dk EXCEPT !.stage = "l612"] ELSE Raise("decode"))

\* line 612: json.loads; '' is not JSON.  A text that starts with '[' and
\* parses is an array
Loads ==
    /\ dk.stage = "l612"
    /\ \/ DockerStep(Raise("json"))
       \/ /\ dk.matched
          /\ \E a \in Arrays : DockerStep([dk EXCEPT !.data = a, !.stage = "l615"])

\* lines 615-634: the next element of data is mapped and appended, skipped
\* (line 619), or raises; after the last one the loop ends
MapElement ==
    /\ dk.stage = "l615"
    /\ IF dk.k = Len(dk.data)
       THEN DockerStep([dk EXCEPT !.stage = "l639"])
       ELSE LET e == dk.data[dk.k + 1] IN
            DockerStep(
              IF e = "bad" THEN [Raise("map") EXCEPT !.k = dk.k + 1]
              ELSE IF e = "noname" THEN [dk EXCEPT !.k = dk.k + 1]
              ELSE [dk EXCEPT !.k = dk.k + 1,
                              !.containers = Append(dk.containers, dk.k + 1)])

\* lines 635-637 with the exception raised again
HandlerReraise ==
    /\ dk.stage = "l635"
    /\ DockerStep([dk EXCEPT !.escaped = TRUE, !.stage = "done"])
\* lines 635-637: except Exception: pass
Handler ==
    /\ dk.stage = "l635"
    /\ DockerStep([dk EXCEPT !.stage = "l639"])

\* line 639: return containers
DockerReturn ==
    /\ dk.stage = "l639"
    /\ DockerStep([dk EXCEPT !.returned = TRUE, !.stage = "done"])

\* the next call is that of another collection pass
DockerNext ==
    /\ dk.stage = "done"
    /\ DockerStep(IdleDocker)

----------------------------------------------------------------------------
(* The loop of lines 615-634 on the values of the elements.  A string is a  *)
(* sequence of characters; an element is a JSON object with the keys of     *)
(* has, whose other fields hold the default that .get would give.           *)

\* line 620: s.lstrip('/') with one character removed at most
LstripOne(s) == IF s # <<>> /\ Head(s) = "/" THEN Tail(s) ELSE s
\* line 620: s.lstrip('/') removes every '/' the string starts with
RECURSIVE Lstrip(_)
Lstrip(s) ==
    IF s = <<>> THEN <<>>
    ELSE IF Head(s) = "/" THEN Lstrip(Tail(s))
    ELSE s

\* line 625: s.split('/')[-1]: the characters are read from the left, cur
\* is the segment being collected, and a '/' starts a new one
RECURSIVE LastOfSplit(_, _)
LastOfSplit(s, cur) ==
    IF s = <<>> THEN cur
    ELSE IF Head(s) = "/" THEN LastOfSplit(Tail(s), <<>>)
    ELSE LastOfSplit(Tail(s), Append(cur, Head(s)))

\* lines 623-625: the image, shortened when it has a '/'
ShortImage(image) ==
    IF \E i \in 1..Len(image) : image[i] = "/"
    THEN LastOfSplit(image, <<>>)
    ELSE image

\* values of Names, Image and State in the daemon's answer
NameLists ==
    {<<>>,
     << <<"/", "a">> >>,
     << <<"/", "/", "a">>, <<"/", "b">> >>,
     << <<"a", "/", "b">> >>}
Images == {<<"i">>, <<"r", "/", "i">>, <<"h", "/", "r", "/">>}
States == {"running", "exited"}

\* the objects of the array; a key that is absent is not in has
Containers ==
    {[has |-> hs,
      Names |-> IF "Names" \in hs THEN ns ELSE <<>>,
      Image |-> IF "Image" \in hs THEN im ELSE <<>>,
      State |-> IF "State" \in hs THEN st ELSE "unknown"] :
        hs \in SUBSET {"Names", "Image", "State"},
        ns \in NameLists, im \in Images, st \in States}
ContainerArrays == UNION {[1..n -> Containers] : n \in 0..MaxElems}

\* line 612: data = json.loads(json_str) gives an array of objects
LoadsContainers ==
    /\ dk.stage = "idle"
    /\ \E a \in ContainerArrays :
        DockerStep([IdleDocker EXCEPT !.data = a, !.stage = "l615"])

\* lines 615-634: the next element: names = container.get('Names', []); an
\* element without names is skipped (line 619); else its name, image and
\* state are appended; after the last element the loop ends
MapContainer ==
    /\ dk.stage = "l615"
    /\ IF dk.k = Len(dk.data)
       THEN DockerStep([dk EXCEPT !.stage = "l639"])
       ELSE LET container == dk.data[dk.k + 1]
                names == container.Names
            IN  DockerStep(
                  IF names = <<>> THEN [dk EXCEPT !.k = dk.k + 1]
                  ELSE [dk EXCEPT !.k = dk.k + 1,
                          !.containers = Append(dk.containers,
                              [name |-> Lstrip(names[1]),
                               status |-> container.State,
                               image |-> ShortImage(container.Image)])])

----------------------------------------------------------------------------
(* Requests in flight at once.  ThreadedHTTPServer.process_request (lines   *)
(* 861-864) starts a thread for every request, and collect_metrics (line    *)
(* 757) makes an executor for every pass.  Thread t handles one request.    *)
(* The futures of a pass are taken by count here: the executor's queue is   *)
(* first in first out, so of the m tasks submitted the first s have been    *)
(* given a worker, and d of those have ended; get_cpu is taken as a unit,   *)
(* at the moment its task is given a worker.  No collector raises.          *)

\* a request thread that has no request
IdleRequest == [stage |-> "idle", path |-> "", m |-> 0, s |-> 0, d |-> 0,
                cpu |-> 0, status |-> 0, body |-> ""]

\* a step of request thread t that changes nothing but its handler
ServeStep(t, f) ==
    /\ rq' = [rq EXCEPT ![t] = f]
    /\ UNCHANGED <<trackerVars, cpuVars, env, static, h, task, res, resp,
                   served, dk, ex>>

\* the tasks of t's pass that are executing
Executing(t) == rq[t].s - rq[t].d
\* a host where the read of the filesystems collector blocks for good in the
\* pass of the first request thread and returns in every other pass (a mount
\* whose server is gone for a while)
HangA == [osrel |-> "ok", who |-> IndexOf("filesystems"), kind |-> "hangA"]
\* the collector that hangs has been given a worker in t's pass
HungIn(t) ==
    /\ rq[t].s >= env.who
    /\ env.kind = "hang" \/ (env.kind = "hangA" /\ t = 1)

\* lines 861-864 and 820-824 with every path routed to collect_metrics
ArriveAllCollect(t) ==
    /\ rq[t].stage = "idle"
    /\ \E p \in Paths :
        ServeStep(t, [IdleRequest EXCEPT !.path = p, !.stage = "l754"])
\* http.server.HTTPServer without ThreadingMixIn: a request is taken when
\* the one before it has been answered
ArriveSerial(t) ==
    /\ rq[t].stage = "idle"
    /\ \A u \in Threads : rq[u].stage \in {"idle", "done"}
    /\ \E p \in Paths :
        ServeStep(t, [IdleRequest EXCEPT !.path = p,
                          !.stage = IF p = "/metrics" THEN "l754" ELSE "respond"])
\* lines 861-864 and 820-824, 838, 846: a request arrives, a thread is
\* started for it, and do_GET routes it
Arrive(t) ==
    /\ rq[t].stage = "idle"
    /\ \E p \in Paths :
        ServeStep(t, [IdleRequest EXCEPT !.path = p,
                          !.stage = IF p = "/metrics" THEN "l754" ELSE "respond"])

\* line 754 and lines 68-69: get_static_info() is called and lru_cache looks
\* the call up: a cached value is returned; else the body is entered, and
\* the cache holds no lock while the body runs
StaticLookup(t) ==
    /\ rq[t].stage = "l754"
    /\ ServeStep(t, [rq[t] EXCEPT
            !.stage = IF static.cached THEN "submit" ELSE "l71"])

\* lines 71-100: the body of get_static_info has run (it reads the host name,
\* /proc/cpuinfo and /etc/os-release); lru_cache stores the result unless a
\* result was stored in the meantime; line 757: the executor of the pass
StaticBody(t) ==
    /\ rq[t].stage = "l71"
    /\ rq' = [rq EXCEPT ![t].stage = "submit"]
    /\ static' = [cached |-> TRUE,
                  hasOs |-> IF static.cached THEN static.hasOs
                            ELSE env.osrel \in {"ok", "missing"},
                  runs |-> static.runs + 1]
    /\ UNCHANGED <<trackerVars, cpuVars, env, h, task, res, resp, served,
                   dk, ex>>

\* lines 754-757: the static info (with an 'os') and the executor of the pass
PassStart(t) ==
    /\ rq[t].stage = "l754"
    /\ ServeStep(t, [rq[t] EXCEPT !.stage = "submit"])

\* lines 758-774: executor.submit of the next collector
SubmitTask(t) ==
    /\ rq[t].stage = "submit"
    /\ rq[t].m < NCollectors
    /\ ServeStep(t, [rq[t] EXCEPT !.m = rq[t].m + 1,
                         !.stage = IF rq[t].m + 1 = NCollectors
                                   THEN "join" ELSE "submit"])

\* lines 120-172: what a get_cpu call leaves in the trackers: a sample for
\* each of its keys and for the core
GetCpuEffect ==
    /\ passes' = passes + 1
    /\ data' = [k \in AllKeys |->
                  IF k \notin CpuKeys THEN data[k]
                  ELSE Pair(IF k = "cpu_idle" THEN kern.idle
                            ELSE IF k = "cpu_total" THEN kern.idle + kern.busy
                            ELSE kern.ctxt, mono)]
    /\ writer' = [k \in AllKeys |->
                    IF k \in CpuKeys THEN passes + 1 ELSE writer[k]]
    /\ cores' = [cores EXCEPT ![0] = CorePair(kern.idle, kern.idle + kern.busy)]

\* a pool whose workers run one task each and are not used again
TaskStartNoReuse(t) ==
    /\ rq[t].s < rq[t].m
    /\ rq[t].s < MaxWorkers
    /\ IF Collectors[rq[t].s + 1] = "cpu"
       THEN /\ GetCpuEffect
            /\ rq' = [rq EXCEPT ![t].s = rq[t].s + 1, ![t].cpu = rq[t].cpu + 1]
            /\ UNCHANGED <<mono, lock, coreLock, fr, kern, cf, env, static, h,
                           task, res, resp, served, dk, ex>>
       ELSE ServeStep(t, [rq[t] EXCEPT !.s = rq[t].s + 1])
\* a worker of the pass's executor takes the oldest queued task; the
\* executor has at most max_workers threads (line 757)
TaskStart(t) ==
    /\ rq[t].s < rq[t].m
    /\ Executing(t) < MaxWorkers
    /\ IF Collectors[rq[t].s + 1] = "cpu"
       THEN /\ GetCpuEffect
            /\ rq' = [rq EXCEPT ![t].s = rq[t].s + 1, ![t].cpu = rq[t].cpu + 1]
            /\ UNCHANGED <<mono, lock, coreLock, fr, kern, cf, env, static, h,
                           task, res, resp, served, dk, ex>>
       ELSE ServeStep(t, [rq[t] EXCEPT !.s = rq[t].s + 1])

\* an executing collector returns; one that hangs does not
TaskFinish(t) ==
    /\ Executing(t) > (IF HungIn(t) THEN 1 ELSE 0)
    /\ ServeStep(t, [rq[t] EXCEPT !.d = rq[t].d + 1])

\* line 776 and the end of the "with" block: every future's result() has
\* returned
JoinAll(t) ==
    /\ rq[t].stage = "join"
    /\ rq[t].d = NCollectors
    /\ ServeStep(t, [rq[t] EXCEPT !.stage = "assemble"])

\* lines 778-814 and 825-829: the snapshot and its JSON text
Snapshot(t) ==
    /\ rq[t].stage = "assemble"
    /\ ServeStep(t, [rq[t] EXCEPT !.stage = "respond", !.body = "json"])

\* lines 831-836, 839-844 and 847: the response
SendResponse(t) ==
    /\ rq[t].stage = "respond"
    /\ ServeStep(t, [rq[t] EXCEPT
            !.stage = "done",
            !.status = IF rq[t].path = "/other" THEN 404 ELSE 200,
            !.body = IF rq[t].path = "/health" THEN "OK"
                     ELSE IF rq[t].path = "/other" THEN "" ELSE rq[t].body])

----------------------------------------------------------------------------
(* Lines 597-611 of get_containers: the extraction of the JSON array from   *)
(* the body.  A body is a sequence of bytes of four kinds: "[", "]", "q" (a *)
(* double quote) and "x" (any other byte: the bytes of the chunk framing    *)
(* are of this kind).  Indexes are Python's: the first byte has index 0.    *)

\* longest body examined
MaxBody == 6
\* line 602: json_start + 50000
SearchLimit == 50000

Bytes == {"[", "]", "q", "x"}
Bodies == UNION {[1..n -> Bytes] : n \in 0..MaxBody}

Min(a, b) == IF a < b THEN a ELSE b

\* line 597: body.find(b'['): the index of the first '[', -1 when none
Find(body) ==
    IF \E i \in 1..Len(body) : body[i] = "["
    THEN (CHOOSE i \in 1..Len(body) :
              body[i] = "[" /\ \A j \in 1..(i - 1) : body[j] # "[") - 1
    ELSE -1

\* lines 600-609: the loop over range(i, stop) with depth and json_end as
\* they are at the start of pass i; the value is json_end after the loop
RECURSIVE Scan(_, _, _, _, _)
Scan(body, i, stop, depth, json_end) ==
    IF i >= stop THEN json_end
    ELSE IF body[i + 1] = "[" THEN Scan(body, i + 1, stop, depth + 1, json_end)
    ELSE IF body[i + 1] = "]"
         THEN IF depth - 1 = 0 THEN i + 1
              ELSE Scan(body, i + 1, stop, depth - 1, json_end)
    ELSE Scan(body, i + 1, stop, depth, json_end)

\* Python's body[a:b] for 0 <= a <= b <= len(body)
Slice(body, a, b) == SubSeq(body, a + 1, b)

\* no response body is examined
NoBody == [stage |-> "idle", body |-> <<>>, json_start |-> -1, json_end |-> 0,
           out |-> <<>>]

\* a step of the extraction, which changes nothing but its frame
ExtractStep(f) ==
    /\ ex' = f
    /\ UNCHANGED <<trackerVars, cpuVars, env, static, h, task, res, resp,
                   served, dk, rq>>

\* line 590: the body of a response
GiveBody ==
    /\ ex.stage = "idle"
    /\ \E b \in Bodies : ExtractStep([NoBody EXCEPT !.body = b, !.stage = "l597"])

\* lines 597-598: json_start; without a '[' nothing is extracted
FindBracket ==
    /\ ex.stage = "l597"
    /\ LET js == Find(ex.body) IN
       ExtractStep([ex EXCEPT !.json_start = js,
                              !.stage = IF js >= 0 THEN "l600" ELSE "done"])

\* lines 600-609: json_end
ScanBrackets ==
    /\ ex.stage = "l600"
    /\ ExtractStep([ex EXCEPT
            !.json_end = Scan(ex.body, ex.json_start,
                              Min(Len(ex.body), ex.json_start + SearchLimit),
                              0, ex.json_start),
            !.stage = "l611"])

\* line 611: json_str = body[json_start:json_end]
TakeSlice ==
    /\ ex.stage = "l611"
    /\ ExtractStep([ex EXCEPT !.out = Slice(ex.body, ex.json_start, ex.json_end),
                              !.stage = "done"])

\* the next response
NextBody ==
    /\ ex.stage = "done"
    /\ ExtractStep(NoBody)

----------------------------------------------------------------------------
(* The environment of the tracker: the clock, and callers *)

\* the monotonic clock advances
Tick ==
    /\ mono < MaxClock
    /\ mono' = mono + 1
    /\ UNCHANGED <<data, lock, cores, coreLock, writer, fr, cpuVars, passVars>>

\* a caller invokes tracker.update(k, v) with any key and value
CallUpdate(t) ==
    /\ cf[t].stage = "none"
    /\ \E k \in Keys, v \in Vals : Enter(t, k, v)
    /\ UNCHANGED <<cpuVars, passVars>>

\* the call returns to that caller
Return(t) ==
    /\ cf[t].stage = "none"
    /\ Release(t)
    /\ UNCHANGED <<cpuVars, passVars>>

\* a caller invokes core_tracker.update(c, idle, total) with any core and sample
CallCore(t) ==
    /\ cf[t].stage = "none"
    /\ \E c \in CoreIds, smp \in CoreSamples : CoreEnter(t, c, smp[1], smp[2])
    /\ UNCHANGED <<cpuVars, passVars>>

\* the call returns to that caller
CoreReturn(t) ==
    /\ cf[t].stage = "none"
    /\ CoreRelease(t)
    /\ UNCHANGED <<cpuVars, passVars>>

InitTracker ==
    /\ mono = 0
    /\ data = [k \in AllKeys |-> NoPair]
    /\ writer = [k \in AllKeys |-> 0]
    /\ lock = 0
    /\ cores = [c \in CoreIds |-> NoCore]
    /\ coreLock = 0
    /\ fr = [t \in Threads |-> IdleFrame]

\* no get_cpu call is in progress, and none starts
NoCpuFrame ==
    [stage |-> "none", pass |-> 0, idle |-> 0, total |-> 0, ctxt |-> 0,
     idle_rate |-> Zero, total_rate |-> Zero, percent |-> 0, core |-> 0,
     ctxt_rate |-> Zero, ok |-> TRUE, prevIdleTag |-> 0, prevTotalTag |-> 0,
     baseIdle |-> 0, baseTotal |-> 0,
     dev |-> 0, read_sec |-> 0, write_sec |-> 0, io_percent |-> 0,
     rx_sec |-> 0, tx_sec |-> 0]


\* get_containers is not called, no body is examined, no request thread runs
NoOthers ==
    /\ dk = IdleDocker
    /\ ex = NoBody
    /\ rq = [t \in Threads |-> IdleRequest]

\* no request is handled, and none arrives
NoPass ==
    /\ NoOthers
    /\ env =[osrel |-> "ok", who |-> 0, kind |-> "none"]
    /\ static = [cached |-> FALSE, hasOs |-> FALSE, runs |-> 0]
    /\ h = IdleHandler
    /\ task = [c \in Tasks |-> "none"]
    /\ res = [c \in Tasks |-> "none"]
    /\ resp = NoResp
    /\ served = MaxRequests

Init ==
    /\ InitTracker
    /\ kern = [idle |-> 0, busy |-> 0, ctxt |-> 0, dev |-> 0]
    /\ passes = 0
    /\ cf = [t \in Threads |-> NoCpuFrame]
    /\ NoPass

Next ==
    \/ Tick
    \/ \E t \in Threads : CallUpdate(t)
    \/ \E t \in Threads : Acquire(t)
    \/ \E t \in Threads : ReadClock(t)
    \/ \E t \in Threads : Lookup(t)
    \/ \E t \in Threads : Store37(t)
    \/ \E t \in Threads : Store40(t)
    \/ \E t \in Threads : Return(t)

\* concurrent callers of DeltaTracker.update
Spec == Init /\ [][Next]_vars

NextCore ==
    \/ \E t \in Threads : CallCore(t)
    \/ \E t \in Threads : CoreAcquire(t)
    \/ \E t \in Threads : CoreLookup(t)
    \/ \E t \in Threads : CoreStore60(t)
    \/ \E t \in Threads : CoreStore63(t)
    \/ \E t \in Threads : CoreReturn(t)

\* concurrent callers of CoreTracker.update
SpecCore == Init /\ [][NextCore]_vars

InitCpu ==
    /\ InitTracker
    /\ kern = [idle |-> 0, busy |-> 0, ctxt |-> 0, dev |-> 0]
    /\ passes = 0
    /\ cf = [t \in Threads |-> StartFrame]
    /\ NoPass

NextCpu ==
    \/ Tick
    \/ KernelAdvance
    \/ \E t \in Threads : CpuRead(t)
    \/ \E t \in Threads : CpuReadFail(t)
    \/ \E t \in Threads : CpuCallIdle(t)
    \/ \E t \in Threads : CpuRetIdle(t)
    \/ \E t \in Threads : CpuCallTotal(t)
    \/ \E t \in Threads : CpuRetTotal(t)
    \/ \E t \in Threads : CpuCallCore(t)
    \/ \E t \in Threads : CpuRetCore(t)
    \/ \E t \in Threads : CpuCallCtxt(t)
    \/ \E t \in Threads : CpuRetCtxt(t)
    \/ \E t \in Threads : CpuNext(t)
    \/ \E t \in Threads : Acquire(t)
    \/ \E t \in Threads : ReadClock(t)
    \/ \E t \in Threads : Lookup(t)
    \/ \E t \in Threads : Store37(t)
    \/ \E t \in Threads : Store40(t)
    \/ \E t \in Threads : CoreAcquire(t)
    \/ \E t \in Threads : CoreLookup(t)
    \/ \E t \in Threads : CoreStore60(t)
    \/ \E t \in Threads : CoreStore63(t)

\* the get_cpu tasks of /metrics requests in flight
SpecCpu == InitCpu /\ [][NextCpu]_vars

InitRates ==
    /\ InitTracker
    /\ kern \in KernSamples
    /\ passes = 0
    /\ cf = [t \in Threads |-> StartFrame]
    /\ NoPass

NextRates ==
    \/ Tick
    \/ CountersChange
    \/ \E t \in Threads : CpuRead(t)
    \/ \E t \in Threads : CpuReadFail(t)
    \/ \E t \in Threads : CpuCallIdle(t)
    \/ \E t \in Threads : CpuRetIdle(t)
    \/ \E t \in Threads : CpuCallTotal(t)
    \/ \E t \in Threads : CpuRetTotal(t)
    \/ \E t \in Threads : CpuCallCore(t)
    \/ \E t \in Threads : CpuRetCore(t)
    \/ \E t \in Threads : CpuCallCtxt(t)
    \/ \E t \in Threads : CpuRetCtxt(t)
    \/ \E t \in Threads : DiskRead(t)
    \/ \E t \in Threads : DiskCallRead(t)
    \/ \E t \in Threads : DiskRetRead(t)
    \/ \E t \in Threads : DiskCallWrite(t)
    \/ \E t \in Threads : DiskRetWrite(t)
    \/ \E t \in Threads : DiskCallIo(t)
    \/ \E t \in Threads : DiskRetIo(t)
    \/ \E t \in Threads : NetRead(t)
    \/ \E t \in Threads : NetCallRx(t)
    \/ \E t \in Threads : NetRetRx(t)
    \/ \E t \in Threads : NetCallTx(t)
    \/ \E t \in Threads : NetRetTx(t)
    \/ \E t \in Threads : CpuNext(t)
    \/ \E t \in Threads : Acquire(t)
    \/ \E t \in Threads : ReadClock(t)
    \/ \E t \in Threads : Lookup(t)
    \/ \E t \in Threads : Store37(t)
    \/ \E t \in Threads : Store40(t)
    \/ \E t \in Threads : CoreAcquire(t)
    \/ \E t \in Threads : CoreLookup(t)
    \/ \E t \in Threads : CoreStore60(t)
    \/ \E t \in Threads : CoreStore63(t)

\* the get_cpu, get_disk_io and get_network tasks of /metrics requests in
\* flight, over counters that rise and fall
SpecRates == InitRates /\ [][NextRates]_vars

InitCollect ==
    /\ InitTracker
    /\ kern = [idle |-> 0, busy |-> 0, ctxt |-> 0, dev |-> 0]
    /\ passes = 0
    /\ cf = [t \in Threads |-> NoCpuFrame]
    /\ env \in Envs
    /\ static = [cached |-> FALSE, hasOs |-> FALSE, runs |-> 0]
    /\ h = IdleHandler
    /\ task = [c \in Tasks |-> "none"]
    /\ res = [c \in Tasks |-> "none"]
    /\ resp = NoResp
    /\ served = 0
    /\ NoOthers

NextCollect ==
    \/ Accept
    \/ StaticInfo
    \/ Submit
    \/ \E c \in Tasks : Start(c)
    \/ \E c \in Tasks : Finish(c)
    \/ Join
    \/ ExitWith
    \/ Assemble
    \/ Respond
    \/ Fail
    \/ Finish_Request

\* requests handled one after another, each /metrics request with its pass
SpecCollect == InitCollect /\ [][NextCollect]_vars

NextDocker ==
    \/ DockerCall
    \/ Connect
    \/ Send
    \/ Recv
    \/ Close
    \/ Split
    \/ FindStart
    \/ Match
    \/ Decode
    \/ Loads
    \/ MapElement
    \/ Handler
    \/ DockerReturn
    \/ DockerNext

\* calls of get_containers, one after another, against any peer
SpecDocker == Init /\ [][NextDocker]_vars

InitServe ==
    /\ InitTracker
    /\ kern = [idle |-> 0, busy |-> 0, ctxt |-> 0, dev |-> 0]
    /\ passes = 0
    /\ cf = [t \in Threads |-> NoCpuFrame]
    /\ env \in {e \in Envs : e.osrel = "ok" /\ e.kind \in {"none", "hang"}}
    /\ static = [cached |-> FALSE, hasOs |-> FALSE, runs |-> 0]
    /\ h = IdleHandler
    /\ task = [c \in Tasks |-> "none"]
    /\ res = [c \in Tasks |-> "none"]
    /\ resp = NoResp
    /\ served = MaxRequests
    /\ NoOthers

NextServe ==
    \/ \E t \in Threads : Arrive(t)
    \/ \E t \in Threads : PassStart(t)
    \/ \E t \in Threads : SubmitTask(t)
    \/ \E t \in Threads : TaskStart(t)
    \/ \E t \in Threads : TaskFinish(t)
    \/ \E t \in Threads : JoinAll(t)
    \/ \E t \in Threads : Snapshot(t)
    \/ \E t \in Threads : SendResponse(t)

\* requests handled at once, each on a thread of its own
SpecServe == InitServe /\ [][NextServe]_vars

InitServeFair == InitServe /\ env.kind = "none"

\* the same on a host where every collector returns, the scheduler running
\* some thread that can run
SpecServeFair == InitServeFair /\ [][NextServe]_vars /\ WF_vars(NextServe)

InitHang ==
    /\ InitTracker
    /\ kern = [idle |-> 0, busy |-> 0, ctxt |-> 0, dev |-> 0]
    /\ passes = 0
    /\ cf = [t \in Threads |-> NoCpuFrame]
    /\ env = HangA
    /\ static = [cached |-> FALSE, hasOs |-> FALSE, runs |-> 0]
    /\ h = IdleHandler
    /\ task = [c \in Tasks |-> "none"]
    /\ res = [c \in Tasks |-> "none"]
    /\ resp = NoResp
    /\ served = MaxRequests
    /\ NoOthers

\* requests handled at once on a host where a collector hangs in the pass of
\* one of them, the scheduler running some thread that can run
SpecHang == InitHang /\ [][NextServe]_vars /\ WF_vars(NextServe)

NextStatic ==
    \/ \E t \in Threads : Arrive(t)
    \/ \E t \in Threads : StaticLookup(t)
    \/ \E t \in Threads : StaticBody(t)
    \/ \E t \in Threads : SubmitTask(t)
    \/ \E t \in Threads : TaskStart(t)
    \/ \E t \in Threads : TaskFinish(t)
    \/ \E t \in Threads : JoinAll(t)
    \/ \E t \in Threads : Snapshot(t)
    \/ \E t \in Threads : SendResponse(t)

\* requests handled at once, with the call of get_static_info in steps
SpecStatic == InitServeFair /\ [][NextStatic]_vars

InitSeq ==
    /\ InitTracker
    /\ kern = [idle |-> 0, busy |-> 0, ctxt |-> 0, dev |-> 0]
    /\ passes = 0
    /\ cf = [t \in Threads |-> IF t = 1 THEN StartFrame ELSE NoCpuFrame]
    /\ NoPass

\* the get_cpu tasks of /metrics requests that come one after another: one
\* thread makes all the passes
SpecSeq == InitSeq /\ [][NextCpu]_vars

NextSummaries ==
    \/ LoadsContainers
    \/ MapContainer
    \/ DockerReturn
    \/ DockerNext

\* the mapping of lines 615-634 applied to one parsed array after another
SpecSummaries == Init /\ [][NextSummaries]_vars

NextExtract ==
    \/ GiveBody
    \/ FindBracket
    \/ ScanBrackets
    \/ TakeSlice
    \/ NextBody

\* the extraction applied to one body after another
SpecExtract == Init /\ [][NextExtract]_vars

\* DeltaTracker has not been called yet
DeltaQuiet ==
    /\ data = [k \in AllKeys |-> NoPair]
    /\ \A t \in Threads : fr[t].pc \in {"idle", "c55", "c56", "c60", "c63", "cexit"}
\* CoreTracker has not been called yet
CoreQuiet ==
    /\ cores = [c \in CoreIds |-> NoCore]
    /\ \A t \in Threads : fr[t].pc \in {"idle", "l31", "l32", "l33", "l37", "l40", "exit"}

NextEither ==
    \/ CoreQuiet /\ Tick
    \/ \E t \in Threads : CoreQuiet /\ CallUpdate(t)
    \/ \E t \in Threads : CoreQuiet /\ Acquire(t)
    \/ \E t \in Threads : CoreQuiet /\ ReadClock(t)
    \/ \E t \in Threads : CoreQuiet /\ Lookup(t)
    \/ \E t \in Threads : CoreQuiet /\ Store37(t)
    \/ \E t \in Threads : CoreQuiet /\ Store40(t)
    \/ \E t \in Threads : CoreQuiet /\ Return(t)
    \/ \E t \in Threads : DeltaQuiet /\ CallCore(t)
    \/ \E t \in Threads : DeltaQuiet /\ CoreAcquire(t)
    \/ \E t \in Threads : DeltaQuiet /\ CoreLookup(t)
    \/ \E t \in Threads : DeltaQuiet /\ CoreStore60(t)
    \/ \E t \in Threads : DeltaQuiet /\ CoreStore63(t)
    \/ \E t \in Threads : DeltaQuiet /\ CoreReturn(t)

\* concurrent callers that all call the same tracker, whichever it is
SpecEither == Init /\ [][NextEither]_vars

----------------------------------------------------------------------------
(* The claims.  A call is examined at pc = "exit" ("cexit"): its result is  *)
(* computed and its stores are done, the lock is not yet released.          *)

Abs(x) == IF x < 0 THEN -x ELSE x

\* the threads inside DeltaTracker.update's "with" block
InDelta == {t \in Threads : fr[t].pc \in {"l32", "l33", "l37", "l40", "exit"}}
\* the threads inside CoreTracker.update's "with" block
InCore == {t \in Threads : fr[t].pc \in {"c56", "c60", "c63", "cexit"}}

\* C1: an update that finds (v1, t1) stored for its key and reads the clock
\* at t2 > t1 returns exactly (v2 - v1) / (t2 - t1), negative when v2 < v1.
C1_RateIsQuotient ==
    \A t \in Threads :
        (fr[t].pc = "exit" /\ fr[t].prev.set /\ fr[t].now > fr[t].prev.time) =>
            /\ fr[t].ret.den > 0
            /\ fr[t].ret.num * (fr[t].now - fr[t].prev.time)
                 = (fr[t].value - fr[t].prev.val) * fr[t].ret.den

\* a counter that went down over a positive time gave a negative rate
C1_Witness ==
    \E t \in Threads :
        /\ fr[t].pc = "exit" /\ fr[t].prev.set
        /\ fr[t].now > fr[t].prev.time
        /\ fr[t].value < fr[t].prev.val
        /\ fr[t].ret.num < 0

\* C2: an update of a key that is not in the tracker returns 0.0 and stores
\* (v, now), so the key is known; an update of a known key takes the delta
\* path (it stores at line 37 before it can reach line 40).
C2_FirstObservation ==
    \A t \in Threads :
        /\ (fr[t].pc = "exit" /\ ~fr[t].prev.set) =>
               /\ fr[t].ret = Zero
               /\ data[fr[t].key] = Pair(fr[t].value, fr[t].now)
        /\ (fr[t].pc = "l37") => fr[t].prev.set
        /\ (fr[t].pc = "l40" /\ fr[t].prev.set) =>
               data[fr[t].key] = Pair(fr[t].value, fr[t].now)

\* a first observation of a non-zero counter finished, and the key is known
C2_Witness ==
    \E t \in Threads :
        /\ fr[t].pc = "exit" /\ ~fr[t].prev.set
        /\ fr[t].value > 0
        /\ data[fr[t].key].set

\* C3: whichever branch an update takes, the pair stored for its key when it
\* returns is (v, now); with a time delta of 0 it returns 0.0.
C3_AlwaysStores ==
    \A t \in Threads :
        fr[t].pc = "exit" =>
            /\ data[fr[t].key] = Pair(fr[t].value, fr[t].now)
            /\ (fr[t].prev.set /\ fr[t].now = fr[t].prev.time) => fr[t].ret = Zero

\* two updates of a key in the same clock tick, the second with another value
C3_Witness ==
    \E t \in Threads :
        /\ fr[t].pc = "exit" /\ fr[t].prev.set
        /\ fr[t].now = fr[t].prev.time
        /\ fr[t].value # fr[t].prev.val
        /\ data[fr[t].key].val = fr[t].value

\* C4: CoreTracker.update returns 0.0 for a core it has not seen and when
\* total_delta <= 0; otherwise the multiple of 0.1 nearest to
\* (1 - idle_delta/total_delta) * 100, not clamped to [0, 100]; in every case
\* the stored pair becomes (idle, total).  (100,200) then (150,300) gives 50.0.
C4_CoreUsage ==
    \A t \in Threads :
        fr[t].pc = "cexit" =>
            LET p  == fr[t].prevCore
                id == fr[t].idle - p.idle
                td == fr[t].total - p.total
            IN  /\ cores[fr[t].core_id] = CorePair(fr[t].idle, fr[t].total)
                /\ ~p.set => fr[t].usage = 0
                /\ (p.set /\ td <= 0) => fr[t].usage = 0
                /\ (p.set /\ td > 0) =>
                       2 * Abs(fr[t].usage * td - 1000 * (td - id)) <= td
                /\ (p = CorePair(100, 200) /\ fr[t].idle = 150 /\ fr[t].total = 300)
                       => fr[t].usage = 500

\* the documented example: (100,200) then (150,300)
C4_Witness ==
    \E t \in Threads :
        /\ fr[t].pc = "cexit"
        /\ fr[t].prevCore = CorePair(100, 200)
        /\ fr[t].idle = 150 /\ fr[t].total = 300
        /\ fr[t].usage = 500

\* C5: calls on one tracker exclude each other: a thread inside the "with"
\* block holds the lock, what it read is what is stored until it stores
\* itself, and its result is the one a sequential call after the previous
\* writer would give; a stored pair is the (value, now) of one call.
C5_Atomic ==
    /\ \A t \in InDelta :
        /\ lock = t
        /\ fr[t].pc \in {"l32", "l33", "l37"} => data[fr[t].key] = fr[t].prev
        /\ fr[t].pc = "l37" =>
               fr[t].old_val = fr[t].prev.val /\ fr[t].old_time = fr[t].prev.time
        /\ fr[t].pc = "exit" =>
               /\ data[fr[t].key] = Pair(fr[t].value, fr[t].now)
               /\ fr[t].ret = IF fr[t].prev.set /\ fr[t].now > fr[t].prev.time
                              THEN [num |-> fr[t].value - fr[t].prev.val,
                                    den |-> fr[t].now - fr[t].prev.time]
                              ELSE Zero
    /\ \A t \in InCore :
        /\ coreLock = t
        /\ fr[t].pc \in {"c56", "c60"} => cores[fr[t].core_id] = fr[t].prevCore
        /\ fr[t].pc = "cexit" =>
               cores[fr[t].core_id] = CorePair(fr[t].idle, fr[t].total)

\* one caller is inside update, between its read and its store, while
\* another caller, with the same key, is blocked on the lock
C5_Witness ==
    \E t, u \in Threads :
        /\ t # u
        /\ fr[t].pc = "l37" /\ fr[t].prev.set
        /\ fr[u].pc = "l31" /\ fr[u].key = fr[t].key

\* C6: a step changes the pair stored for a key only as a store of an update
\* called for that very key, and then to that call's (value, now); the pairs
\* of all other keys stay as they are.
C6_OtherKeysKept ==
    [][\A k \in AllKeys :
          data'[k] # data[k] =>
              \E t \in Threads :
                  /\ fr[t].key = k
                  /\ fr[t].pc \in {"l37", "l40"}
                  /\ fr'[t].pc # fr[t].pc
                  /\ data'[k] = Pair(fr[t].value, fr[t].now)]_vars

\* an update of one key finished while another key holds a different pair
C6_Witness ==
    \E t \in Threads :
        /\ fr[t].pc = "exit" /\ fr[t].key = "cpu_idle"
        /\ data["cpu_total"].set
        /\ data["cpu_total"] # data["cpu_idle"]

\* C7: the idle rate and the total rate of one get_cpu pass are measured
\* against the sample of one and the same earlier pass (or both against
\* none): no other request's update of 'cpu_idle' or 'cpu_total' takes
\* effect between this pass's two updates.
C7_SameBaseline ==
    \A t \in Threads :
        (cf[t].stage \in {"l149", "l164", "done"} /\ cf[t].ok) =>
            cf[t].prevIdleTag = cf[t].prevTotalTag

\* C8: when a collector task of a pass raises, the request is still
\* answered with a snapshot, which has every required field.
C8_RaiseIsIsolated ==
    (h.stage = "done" /\ h.path = "/metrics" /\ \E c \in Tasks : res[c] = "raised") =>
        /\ resp.status = 200
        /\ Required \subseteq resp.fields

\* C9: whatever the state of the files the collectors and the static info
\* read, a GET /metrics request is answered with status 200 and a snapshot.
C9_Always200 ==
    (h.stage = "done" /\ h.path = "/metrics" /\ env.kind \in {"none", "fail", "zero"}) =>
        /\ resp.status = 200
        /\ Required \subseteq resp.fields

\* C10: a /metrics request gets past the executor's "with" block (to the
\* snapshot, to a response, or to a failure) only when every collector task of
\* its pass has ended; while one has not, the request is not completed.
C10_JoinsAll ==
    /\ (h.path = "/metrics" /\ h.stage \in {"assemble", "respond", "fail", "done"}) =>
           Finished = Tasks
    /\ (h.path = "/metrics" /\ resp.status # 0) => Finished = Tasks
    /\ (h.path = "/metrics" /\ env.kind = "hang") =>
           h.stage \notin {"assemble", "respond", "fail", "done"}

\* the handler is blocked on the future of a collector that hangs, every
\* other collector of the pass has ended, and there is no response
C10_Witness ==
    /\ h.stage = "join" /\ h.path = "/metrics"
    /\ env.kind = "hang" /\ h.j = env.who
    /\ task[env.who] = "running"
    /\ \A c \in Tasks : c # env.who => task[c] = "done"
    /\ resp.status = 0

\* C11: get_containers never lets an exception out: whatever step fails, the
\* call ends by returning its list; when connect fails the list is empty and
\* nothing was sent or read.
C11_NeverRaises ==
    /\ dk.stage = "done" => (dk.returned /\ ~dk.escaped)
    /\ dk.failedAt = "connect" =>
           (dk.containers = <<>> /\ ~dk.sent /\ dk.n = 0)

\* a call that could not connect has returned
C11_Witness ==
    dk.stage = "done" /\ dk.failedAt = "connect" /\ dk.returned

\* C12: when a step after the read loop fails (decode, JSON parse, mapping of
\* an element), or finds no boundary, no '[' or no matching bracket, the
\* returned list is empty.
C12_NoPartialList ==
    (dk.stage = "done" /\ dk.sent /\ dk.failedAt # "recv"
        /\ (dk.failedAt # "" \/ dk.data = <<>>)) =>
            dk.containers = <<>>

\* C13: the read loop makes at most 100 recv calls and the response never
\* exceeds 50,000 + 1,024 bytes; the loop goes on only while the marker is
\* absent, the length is at most 50,000 and no read was empty or timed out,
\* and every pass of the loop is one more recv call.
C13_ReadLoopBounded ==
    /\ [](/\ dk.n <= MaxChunks
          /\ dk.len <= MaxResponse + RecvSize
          /\ dk.stage = "l576" =>
                 /\ ~dk.marker /\ dk.len <= MaxResponse
                 /\ dk.n < MaxChunks /\ dk.stop = ""
          /\ dk.stop = "count" => dk.n = MaxChunks
          /\ dk.stop = "length" => dk.len > MaxResponse)
    /\ [][(dk.stage = "l576" /\ dk'.stage \in {"l576", "l586"}) =>
              dk'.n = dk.n + 1]_vars

\* a peer that never sends the marker, one byte at a time: the loop ended on
\* its hundredth recv
C13_Witness ==
    /\ dk.stage = "l586" /\ dk.stop = "count"
    /\ ~dk.marker /\ dk.len <= MaxResponse

C15_TimeNonDecreasing ==
    /\ [](\A t \in Threads :
              fr[t].pc \in {"l37", "l40", "exit"} => fr[t].time_delta >= 0)
    /\ [][\A k \in AllKeys :
              data[k].set => (data'[k].set /\ data'[k].time >= data[k].time)]_vars

\* an update stored a later time for a key while another caller of the same
\* key waited for the lock
C15_Witness ==
    \E t, u \in Threads :
        /\ fr[t].pc = "exit" /\ fr[t].prev.set
        /\ data[fr[t].key].time > fr[t].prev.time
        /\ fr[u].pc = "l31" /\ fr[u].key = fr[t].key

\* the tasks executing in the process, over all requests in flight
RECURSIVE SumExecuting(_)
SumExecuting(n) == IF n = 0 THEN 0 ELSE Executing(n) + SumExecuting(n - 1)
TotalExecuting == SumExecuting(NThreads)

\* C16: a /health request submits no collector, changes no tracker and is
\* answered 200 "OK", and nothing it waits for depends on another request;
\* the trackers change only in the get_cpu call of a /metrics request, and a
\* /metrics request makes one pass: one get_cpu call, fifteen tasks.
C16_HealthIndependent ==
    /\ [](\A t \in Threads :
            rq[t].path = "/health" =>
                /\ rq[t].m = 0 /\ rq[t].s = 0 /\ rq[t].cpu = 0
                /\ rq[t].stage \in {"respond", "done"}
                /\ rq[t].stage = "respond" => ENABLED SendResponse(t)
                /\ rq[t].stage = "done" => (rq[t].status = 200 /\ rq[t].body = "OK"))
    /\ [](\A t \in Threads :
            rq[t].path = "/metrics" =>
                /\ rq[t].cpu <= 1 /\ rq[t].m <= NCollectors
                /\ rq[t].stage \in {"assemble", "respond", "done"} =>
                       (rq[t].cpu = 1 /\ rq[t].m = NCollectors))
    /\ [](passes = Cardinality({t \in Threads : rq[t].cpu = 1}))
    /\ [][(data' # data \/ cores' # cores \/ passes' # passes) =>
             \E t \in Threads :
                 /\ rq[t].path = "/metrics"
                 /\ rq[t].stage \in {"submit", "join"}
                 /\ rq'[t].cpu = rq[t].cpu + 1]_vars

\* a /health request was answered while a /metrics request is blocked on the
\* collector that hangs, its fourteen other tasks done
C16_Witness ==
    \E t, u \in Threads :
        /\ rq[t].path = "/health" /\ rq[t].stage = "done" /\ rq[t].status = 200
        /\ rq[u].path = "/metrics" /\ rq[u].stage = "join"
        /\ HungIn(u) /\ rq[u].d = NCollectors - 1
        /\ data["cpu_idle"].set

\* C17: at any moment at most 8 collector tasks are executing in the
\* process, however many /metrics requests are in flight.
C17_PoolIsShared ==
    TotalExecuting <= MaxWorkers

RECURSIVE ArrayEnd(_, _, _, _)
ArrayEnd(body, i, depth, inString) ==
    IF i >= Len(body) THEN -1
    ELSE LET b == body[i + 1] IN
         IF b = "q" THEN ArrayEnd(body, i + 1, depth, ~inString)
         ELSE IF inString \/ b = "x" THEN ArrayEnd(body, i + 1, depth, inString)
         ELSE IF b = "[" THEN ArrayEnd(body, i + 1, depth + 1, inString)
         ELSE IF depth = 1 THEN i + 1
         ELSE ArrayEnd(body, i + 1, depth - 1, inString)

\* the body carries a single well-formed array: framing bytes, then the
\* array, then framing bytes
CarriesArray(body) ==
    LET a == Find(body)
        b == ArrayEnd(body, a, 0, FALSE)
    IN  /\ a >= 0 /\ b > a
        /\ \A i \in 1..a : body[i] = "x"
        /\ \A i \in (b + 1)..Len(body) : body[i] = "x"

\* C19: from a body that carries a single well-formed JSON array, the
\* extraction yields exactly the array: the bytes from the first '[' to the
\* ']' that closes it, also when a string of the array holds '[' or ']'.
C19_ExtractsArray ==
    (ex.stage = "done" /\ CarriesArray(ex.body)) =>
        ex.out = Slice(ex.body, Find(ex.body),
                       ArrayEnd(ex.body, Find(ex.body), 0, FALSE))

\* C20: of passes made one after another, the first reports 0 percent, and
\* a later one, the tick counters having advanced by d_idle and d_total > 0
\* since the pass before, reports round((1 - d_idle/d_total) * 100, 1)
\* clamped to [0, 100], whatever the clock readings were.
C20_PercentOfDeltas ==
    \A t \in Threads :
        (cf[t].stage \in {"l149", "l164", "done"} /\ cf[t].ok) =>
            LET d_idle == cf[t].idle - cf[t].baseIdle
                d_total == cf[t].total - cf[t].baseTotal
            IN  /\ cf[t].prevIdleTag = cf[t].prevTotalTag
                /\ cf[t].prevIdleTag = 0 => cf[t].percent = 0
                /\ (cf[t].prevIdleTag > 0 /\ d_total > 0) =>
                       cf[t].percent =
                           Clamp(RoundTenths(100 * (d_total - d_idle), d_total),
                                 0, 1000)


\* C21: whatever the counters did and in whatever order concurrent requests
\* applied their samples, cpu.percent and the per-core percent lie in
\* [0, 100], the byte rates of a disk and of an interface are >= 0 and a
\* disk's io_percent lies in [0, 100] (all in tenths)
C21_RatesInRange ==
    \A t \in Threads :
        /\ cf[t].percent \in 0..1000
        /\ cf[t].core \in 0..1000
        /\ cf[t].read_sec >= 0
        /\ cf[t].write_sec >= 0
        /\ cf[t].rx_sec >= 0
        /\ cf[t].tx_sec >= 0
        /\ cf[t].io_percent \in 0..1000
\* a request's older sample was applied after a newer one and update is
\* about to hand a negative byte rate to get_disk_io
C21_Witness ==
    \E t \in Threads :
        /\ cf[t].stage = "l365"
        /\ fr[t].pc = "exit"
        /\ fr[t].ret.num < 0
        /\ fr[t].prevTag > cf[t].pass

\* C25: with kernel counters that never decrease (KernelAdvance only adds),
\* the value stored for a key never decreases and no rate returned by update
\* is negative, also when requests overlap
C25_MonotoneStored ==
    /\ [][\A k \in AllKeys :
            data[k].set => data'[k].val >= data[k].val]_vars
    /\ [](\A t \in Threads : fr[t].pc = "exit" => fr[t].ret.num >= 0)

\* C26: when get_containers has returned, the socket it opened has been
\* closed, on whichever path it returned
C26_SocketClosed == dk.returned => dk.sock # "open"

\* the element has a non-empty Names list
HasName(e) == "Names" \in e.has /\ e.Names # <<>>
\* n times '/'
Slashes(n) == [i \in 1..n |-> "/"]
\* the part of s after its last '/', all of s when it has none
AfterLastSlash(s) ==
    LET at == {i \in 1..Len(s) : s[i] = "/"}
        last == IF at = {} THEN 0 ELSE CHOOSE i \in at : \A j \in at : j <= i
    IN  SubSeq(s, last + 1, Len(s))

\* C24: the list returned for a parsed array has one summary for each element
\* with a non-empty Names list, in the order of the array, and none for the
\* others: name is the first name without the '/' it starts with, image is
\* what follows the last '/' of Image, status is State or "unknown"
C24_Summaries ==
    (dk.returned /\ dk.failedAt = "") =>
        LET named == SelectSeq(dk.data, HasName) IN
        /\ Len(dk.containers) = Len(named)
        /\ \A i \in 1..Len(named) :
            LET e == named[i]
                c == dk.containers[i]
                first == e.Names[1]
            IN  /\ c.name = <<>> \/ Head(c.name) # "/"
                /\ \E n \in 0..Len(first) : first = Slashes(n) \o c.name
                /\ c.image = AfterLastSlash(IF "Image" \in e.has
                                            THEN e.Image ELSE <<>>)
                /\ c.status = IF "State" \in e.has THEN e.State ELSE "unknown"
\* an array whose first element has no name and whose second has a name that
\* starts with two '/', an Image with a registry and no State was mapped
C24_Witness ==
    /\ dk.returned
    /\ Len(dk.data) = 2
    /\ ~HasName(dk.data[1])
    /\ HasName(dk.data[2])
    /\ dk.data[2].Names[1] = <<"/", "/", "a">>
    /\ dk.data[2].Image = <<"r", "/", "i">>
    /\ "State" \notin dk.data[2].has
    /\ dk.containers =
         <<[name |-> <<"a">>, status |-> "unknown", image |-> <<"i">>]>>

C23_BodyRunsOnce == static.runs <= 1
====
